---- MODULE Spec2Model ----
(***************************************************************************)
(* A model of the nolol -> yolol conversion pipeline of yodk               *)
(* (pkg/nolol/converter.go) and of the splice-aware traversal engine       *)
(* (ExtProgramm.Accept / patchExtLines).                                   *)
(*                                                                         *)
(* Sequences are 1-based here, slices are 0-based in the source: the       *)
(* source's index i is the model's i - 1.                                  *)
(***************************************************************************)
EXTENDS Integers, Sequences, FiniteSets, TLC

VARIABLES
    usesTimeTracking,   \* Converter.usesTimeTracking
    orig,               \* the statement-lines as they were before any packing
    lines,              \* mergeStatementElements: parameter lines
    newElements,        \* mergeStatementElements: newElements
    i,                  \* mergeStatementElements: i (1-based)
    mpc,                \* position in mergeStatementElements
    stage,              \* which invocation of the packer is running
    blockLo,            \* nested block = orig[blockLo .. blockHi]
    blockHi,
    pLines,             \* ExtProgramm.Lines
    ai,                 \* ExtProgramm.Accept: i (1-based)
    apc,                \* position in ExtProgramm.Accept
    aret,               \* what ExtProgramm.Accept returned
    pOrig,              \* ExtProgramm.Lines when Accept was called
    visited,            \* the lines whose Accept was called, in order
    replOf,             \* the replacement each original line got, if any
    loopcounter,        \* Converter.loopcounter
    loopLevel,          \* Converter.loopLevel
    macroLevel,         \* Converter.macroLevel
    macros,             \* Converter.macros (the names defined)
    cpc,                \* position in Convert
    prog,               \* the nodes of the program, in traversal order
    tp,                 \* the node convertNodes visits next
    nElems,             \* len(prog.Elements)
    retErr,             \* the error Convert returned
    retProg,            \* the program Convert returned
    ran,                \* the passes this call of Convert has run
    firstErr,           \* the first error a pass of this call returned
    calls,              \* how many times Convert was called
    unconverted,        \* some element of the program is no StatementLine
    budgets,            \* the budgets the packer was run with in this call
    useSpaces,          \* Converter.UseSpaces
    eLine,              \* getLengthOfLine: the statements of the line
    epc,                \* how far the line is on its way to the printer
    estimate,           \* what getLengthOfLine returned for the line
    printed,            \* the length of the line as it is emitted
    gLines,             \* resolveGotoChains: the lines and their jumps
    gpc,                \* position in resolveGotoChains
    gFirst,             \* the lines as the first run of the pass left them
    gOrig,              \* the lines as the pass found them
    gk,                 \* the line whose jump the sweep looks at next
    gChanged,           \* the sweep has redirected a jump
    dValue,             \* ConstDeclaration.Value
    dpc,                \* position in ConstDeclaration.Accept
    dAnswer,            \* what Value.Accept answered
    running,            \* cmd.running
    CurrentScript,      \* helper.CurrentScript (1-based)
    vmStates,           \* helper.Vms[k].State()
    runCalls,           \* the calls of Coordinator.Run since the last load
    last                \* what the last command of the shell did

\* the state of the packer
mergeVars == <<orig, lines, newElements, i, mpc, stage, blockLo, blockHi>>

\* the state of the traversal of an ExtProgramm
accVars == <<pLines, ai, apc, aret, pOrig, visited, replOf>>

\* the fields of the Converter that the lowering pass keeps
convFields == <<loopcounter, loopLevel, macroLevel, macros>>

\* the state of one call of Convert
callVars == <<cpc, prog, tp, nElems, retErr, retProg, ran, firstErr, calls>>

\* what the lowering leaves for the merging pass, and the budgets the
\* packer was run with in this call of Convert
passVars == <<unconverted, budgets>>

\* the state of the length estimate of one line
estVars == <<useSpaces, eLine, epc, estimate, printed>>

\* the state of the jump-chain collapse
gotoVars == <<gLines, gpc, gFirst, gOrig, gk, gChanged>>

\* the state of the traversal of a ConstDeclaration
declVars == <<dValue, dpc, dAnswer>>

\* the state of the debugger shell
dbgVars == <<running, CurrentScript, vmStates, runCalls, last>>

vars == <<usesTimeTracking, mergeVars, accVars, convFields, callVars,
          passVars, estVars, gotoVars, declVars, dbgVars>>

----------------------------------------------------------------------------
(* Bounds of the model *)

\* longest list of statement-lines handed to the packer
MaxLines == 3

\* most lines of an ExtProgramm
MaxChildren == 3

\* most nodes of one replacement
MaxRepl == 2

\* most nodes of a program handed to Convert
MaxProg == 3

\* most calls of Convert on one Converter
MaxCalls == 2

\* most lines the merging pass leaves
MaxOutLines == 22

\* most statements of a line whose length is estimated
MaxStmts == 2

\* most lines of a program whose jump chains are collapsed
MaxJumpLines == 3

\* the last line number of a program that Convert accepts (line 177)
MaxLineNumber == 20

\* printed lengths of the statements the inputs are built from: two short
\* statements fit any budget (22+1+22 = 45), three fit 70 but not 66
\* (68), four fit neither (91); 71 alone fits neither.
StmtLens == {22, 71}

----------------------------------------------------------------------------
(* Statement lines *)

NoLabel == ""

\* nast.StatementLine, as far as the packer reads it. A statement is
\* [id, len]: id names the statement, len is its printed length.
StatementLine(label, stmts, pos, eol, bol) ==
    [label |-> label, stmts |-> stmts, pos |-> pos, hasEOL |-> eol, hasBOL |-> bol]

LabelOf(k) == IF k = 1 THEN "a" ELSE IF k = 2 THEN "b" ELSE IF k = 3 THEN "c"
              ELSE IF k = 4 THEN "d" ELSE "e"

\* every list of n source lines: line k holds the one statement k
SourceLines(n) ==
    { [k \in 1..n |->
          StatementLine(IF lab[k] THEN LabelOf(k) ELSE NoLabel,
                        <<[id |-> k, len |-> sl[k]]>>, k, eol[k], bol[k])] :
        lab \in [1..n -> BOOLEAN], sl \in [1..n -> StmtLens],
        eol \in [1..n -> BOOLEAN], bol \in [1..n -> BOOLEAN] }

RECURSIVE SumLen(_)
SumLen(stmts) ==
    IF stmts = <<>> THEN 0 ELSE Head(stmts).len + SumLen(Tail(stmts))

\* Converter.getLengthOfLine: the printed line without its newline. The
\* printer writes the statements of a line separated by one blank.
getLengthOfLine(stmts) ==
    IF stmts = <<>> THEN 0 ELSE SumLen(stmts) + (Len(stmts) - 1)

\* a budget that reserves the room when no counter will be inserted
maxLineLength_Inverted == IF usesTimeTracking THEN 70 ELSE 70 - 4

\* Converter.maxLineLength
maxLineLength == IF ~usesTimeTracking THEN 70 ELSE 70 - 4

----------------------------------------------------------------------------
(* mergeStatementElements *)

\* lines 326-335: the accumulator line started from lines[i]
NewCurrent(line) ==
    StatementLine(line.label, line.stmts, line.pos, line.hasEOL, FALSE)

\* a packer that appends labelled lines
MayAppend_IgnoreLabel(nextline) == ~nextline.hasBOL

\* line 356: may nextline be appended to the accumulator
MayAppend(nextline) == nextline.label = NoLabel /\ ~nextline.hasBOL

\* line 346: the accumulator is checked before each attempt to extend it
CurrentTooLong(current) == getLengthOfLine(current.stmts) > maxLineLength

\* a packer that puts at most two statements on a line
NewTooLong_TwoAtMost(stmts) == Len(stmts) > 2

\* line 363: the speculative line is over the budget
NewTooLong(stmts) == getLengthOfLine(stmts) > maxLineLength

\* a packer that goes on after a line with hasEOL
StopAfter_Never(nextline) == FALSE

\* line 370: nothing is appended after a line with hasEOL
StopAfter(nextline) == nextline.hasEOL

\* a packer that forgets to roll back
RollBack_Keep(prev, speculative) == speculative

\* lines 357 and 365: prev := current.Statements, and after a
\* speculative line that is too long current.Statements = prev
RollBack(prev, speculative) == prev

\* current is a pointer to the last element of newElements
SetCurrentStmts(stmts) ==
    [newElements EXCEPT ![Len(newElements)].stmts = stmts]

\* lines 325-341: start the next output line
MergeOuter ==
    /\ mpc = "outer"
    /\ i <= Len(lines)
    /\ LET current == NewCurrent(lines[i]) IN
         /\ newElements' = Append(newElements, current)
         /\ IF current.hasEOL
              THEN i' = i + 1 /\ mpc' = "outer"
              ELSE i' = i /\ mpc' = "inner"
    /\ UNCHANGED <<usesTimeTracking, orig, lines, stage, blockLo, blockHi, accVars, convFields, callVars, passVars, estVars, gotoVars, declVars, dbgVars>>

\* lines 343-377: one round of the inner loop
MergeInner ==
    /\ mpc = "inner"
    /\ LET current == newElements[Len(newElements)] IN
       IF i + 1 <= Len(lines)
         THEN IF CurrentTooLong(current)
                THEN /\ mpc' = "error"
                     /\ UNCHANGED <<i, newElements>>
                ELSE LET nextline == lines[i + 1] IN
                     IF MayAppend(nextline)
                       THEN IF NewTooLong(current.stmts \o nextline.stmts)
                              THEN /\ newElements' = SetCurrentStmts(
                                        RollBack(current.stmts, current.stmts \o nextline.stmts))
                                   /\ i' = i + 1
                                   /\ mpc' = "outer"
                              ELSE /\ newElements' = SetCurrentStmts(current.stmts \o nextline.stmts)
                                   /\ IF StopAfter(nextline)
                                        THEN i' = i + 2 /\ mpc' = "outer"
                                        ELSE i' = i + 1 /\ mpc' = "inner"
                       ELSE /\ i' = i + 1
                            /\ mpc' = "outer"
                            /\ UNCHANGED newElements
         ELSE /\ i' = i + 1
              /\ mpc' = "outer"
              /\ UNCHANGED newElements
    /\ UNCHANGED <<usesTimeTracking, orig, lines, stage, blockLo, blockHi, accVars, convFields, callVars, passVars, estVars, gotoVars, declVars, dbgVars>>

\* line 379: return newElements, nil
MergeReturn ==
    /\ mpc = "outer"
    /\ i > Len(lines)
    /\ mpc' = "done"
    /\ UNCHANGED <<usesTimeTracking, orig, lines, newElements, i, stage, blockLo, blockHi, accVars, convFields, callVars, passVars, estVars, gotoVars, declVars, dbgVars>>

----------------------------------------------------------------------------
(* One invocation of the packer on an arbitrary list of statement-lines *)

\* the error value nil
NoError == [pass |-> "", span |-> FALSE]

\* the program value nil
Nil == [isNil |-> TRUE, lines |-> 0]

\* NewConverter (lines 42-53), before any call of Convert
NewConverter ==
    /\ loopcounter = 0
    /\ loopLevel = <<>>
    /\ macroLevel = <<>>
    /\ macros = {}
    /\ cpc = "idle"
    /\ prog = <<>>
    /\ tp = 0
    /\ nElems = 0
    /\ retErr = NoError
    /\ retProg = Nil
    /\ ran = <<>>
    /\ firstErr = NoError
    /\ calls = 0
    /\ unconverted = FALSE
    /\ budgets = {}

\* no traversal of an ExtProgramm is going on
AcceptIdle ==
    /\ pLines = <<>>
    /\ ai = 0
    /\ apc = "idle"
    /\ aret = "none"
    /\ pOrig = <<>>
    /\ visited = <<>>
    /\ replOf = <<>>

\* no packer is running
MergeIdle ==
    /\ orig = <<>>
    /\ lines = <<>>
    /\ newElements = <<>>
    /\ i = 0
    /\ mpc = "idle"
    /\ stage = "none"
    /\ blockLo = 0
    /\ blockHi = 0

\* no traversal of a ConstDeclaration is going on
DeclIdle ==
    /\ dValue = <<>>
    /\ dpc = "idle"
    /\ dAnswer = [kind |-> "none", repl |-> <<>>]

\* what the shell did before its first command
NoCommand ==
    [cmd |-> "none", wasRunning |-> FALSE, ran |-> FALSE, current |-> 0,
     state |-> "none", first |-> "none", call |-> "none", target |-> 0,
     refused |-> FALSE]

\* the debugger is not loaded
DebugIdle ==
    /\ running = FALSE
    /\ CurrentScript = 0
    /\ vmStates = <<>>
    /\ runCalls = 0
    /\ last = NoCommand

\* no line is being measured
EstimateIdle ==
    /\ useSpaces = FALSE
    /\ eLine = <<>>
    /\ epc = "idle"
    /\ estimate = 0
    /\ printed = 0

\* no jump chain is being collapsed
CollapseIdle ==
    /\ gLines = <<>>
    /\ gpc = "idle"
    /\ gFirst = <<>>
    /\ gOrig = <<>>
    /\ gk = 0
    /\ gChanged = FALSE

InitMerge ==
    /\ AcceptIdle
    /\ NewConverter
    /\ DeclIdle
    /\ DebugIdle
    /\ EstimateIdle
    /\ CollapseIdle
    /\ usesTimeTracking \in BOOLEAN
    /\ \E n \in 0..MaxLines : orig \in SourceLines(n)
    /\ lines = orig
    /\ newElements = <<>>
    /\ i = 1
    /\ mpc = "outer"
    /\ stage = "single"
    /\ blockLo = 0
    /\ blockHi = 0

NextMerge == MergeOuter \/ MergeInner \/ MergeReturn

SpecMerge == InitMerge /\ [][NextMerge]_vars

----------------------------------------------------------------------------
(* One invocation of the packer on lines of one or two statements *)

\* every list of n lines of one or two statements of 22 characters:
\* statement j of line k is [id |-> k, n |-> j]
LongSourceLines(n) ==
    { [k \in 1..n |->
          StatementLine(IF lab[k] THEN LabelOf(k) ELSE NoLabel,
                        [j \in 1..cnt[k] |-> [id |-> k, n |-> j, len |-> 22]],
                        k, eol[k], bol[k])] :
        lab \in [1..n -> BOOLEAN], cnt \in [1..n -> {1, 2}],
        eol \in [1..n -> BOOLEAN], bol \in [1..n -> BOOLEAN] }

InitRollback ==
    /\ AcceptIdle
    /\ NewConverter
    /\ DeclIdle
    /\ DebugIdle
    /\ EstimateIdle
    /\ CollapseIdle
    /\ usesTimeTracking \in BOOLEAN
    /\ \E n \in 0..MaxLines : orig \in LongSourceLines(n)
    /\ lines = orig
    /\ newElements = <<>>
    /\ i = 1
    /\ mpc = "outer"
    /\ stage = "single"
    /\ blockLo = 0
    /\ blockHi = 0

SpecRollback == InitRollback /\ [][NextMerge]_vars

----------------------------------------------------------------------------
(* The packer applied to a nested block, then to the list that holds the   *)
(* block's merged lines                                                    *)

\* mergeNololNestableElements (lines 275-295) on the block orig[lo..hi]
InitNested ==
    /\ AcceptIdle
    /\ NewConverter
    /\ DeclIdle
    /\ DebugIdle
    /\ EstimateIdle
    /\ CollapseIdle
    /\ usesTimeTracking \in BOOLEAN
    /\ \E n \in 1..MaxLines : orig \in SourceLines(n)
    /\ \E lo \in 1..Len(orig) : \E hi \in lo..Len(orig) :
          blockLo = lo /\ blockHi = hi
    /\ lines = SubSeq(orig, blockLo, blockHi)
    /\ newElements = <<>>
    /\ i = 1
    /\ mpc = "outer"
    /\ stage = "block"

\* The block's merged lines take the block's place among the elements of
\* the program, and Convert hands the whole list to mergeNololElements
\* (lines 122, 298-318).
mergeNololElements ==
    /\ stage = "block"
    /\ mpc = "done"
    /\ lines' = SubSeq(orig, 1, blockLo - 1) \o newElements
                   \o SubSeq(orig, blockHi + 1, Len(orig))
    /\ newElements' = <<>>
    /\ i' = 1
    /\ mpc' = "outer"
    /\ stage' = "top"
    /\ UNCHANGED <<usesTimeTracking, orig, blockLo, blockHi, accVars, convFields, callVars, passVars, estVars, gotoVars, declVars, dbgVars>>

NextNested == MergeOuter \/ MergeInner \/ MergeReturn \/ mergeNololElements

SpecNested == InitNested /\ [][NextNested]_vars

----------------------------------------------------------------------------
(* getLengthOfLine: the estimate of a line before its jump targets and its *)
(* own line number are known, and the line as it is printed in the end     *)

\* a statement of the measured line: kind "plain" holds neither a jump
\* nor a reference to the line number, "goto" holds a
\* nast.GoToLabelStatement, "line" a nast.FuncCall of line(); text is
\* what the printer writes for the rest of the statement, num the line
\* number that takes the place of the label or of the call (0: not yet)
EstimatedStatements ==
    { [kind |-> "plain", text |-> 3, num |-> 0],
      [kind |-> "goto", text |-> 0, num |-> 0],
      [kind |-> "line", text |-> 2, num |-> 0] }

RECURSIVE Digits(_)
\* the number of characters of a line number
Digits(n) == IF n < 10 THEN 1 ELSE 1 + Digits(n \div 10)

\* an estimate that leaves room for one digit
PlaceholderLen_OneDigit(kind) ==
    IF kind = "goto" THEN (IF useSpaces THEN 6 ELSE 5)
    ELSE IF kind = "line" THEN 1
    ELSE 0

\* lines 390-404: the printer extension writes "goto XX" or "gotoXX" for
\* a jump to a label and "00" for a call of line()
PlaceholderLen(kind) ==
    IF kind = "goto" THEN (IF useSpaces THEN 7 ELSE 6)
    ELSE IF kind = "line" THEN 2
    ELSE 0

\* the printer on a jump to a line number (goto, a blank unless the mode
\* is spaceless, the number) and on a number
ResolvedLen(s) ==
    IF s.kind = "goto" THEN 4 + (IF useSpaces THEN 1 ELSE 0) + Digits(s.num)
    ELSE IF s.kind = "line" THEN Digits(s.num)
    ELSE 0

\* the statements of the line with the lengths the printer gives them
Measured(stmts) ==
    [k \in 1..Len(stmts) |->
        [id |-> k,
         len |-> stmts[k].text + (IF stmts[k].num = 0
                                    THEN PlaceholderLen(stmts[k].kind)
                                    ELSE ResolvedLen(stmts[k]))]]

\* lines 344, 362: the packer measures the line
EstimateLine ==
    /\ epc = "lowered"
    /\ estimate' = getLengthOfLine(Measured(eLine))
    /\ epc' = "estimated"
    /\ UNCHANGED <<useSpaces, eLine, printed>>
    /\ UNCHANGED <<usesTimeTracking, mergeVars, accVars, convFields, callVars, passVars, gotoVars, declVars, dbgVars>>

\* line 139: every jump to a label becomes a jump to the number of the
\* line that carries the label
ReplaceGotoLabels ==
    /\ epc = "estimated"
    /\ \E target \in [1..Len(eLine) -> 1..MaxLineNumber] :
         eLine' = [k \in 1..Len(eLine) |->
                     IF eLine[k].kind = "goto"
                       THEN [eLine[k] EXCEPT !.num = target[k]]
                       ELSE eLine[k]]
    /\ epc' = "jumps"
    /\ UNCHANGED <<useSpaces, estimate, printed>>
    /\ UNCHANGED <<usesTimeTracking, mergeVars, accVars, convFields, callVars, passVars, gotoVars, declVars, dbgVars>>

\* line 145: every call of line() becomes the number of the line it
\* stands on
ConvertLineFuncCalls ==
    /\ epc = "jumps"
    /\ \E own \in 1..MaxLineNumber :
         eLine' = [k \in 1..Len(eLine) |->
                     IF eLine[k].kind = "line"
                       THEN [eLine[k] EXCEPT !.num = own]
                       ELSE eLine[k]]
    /\ epc' = "resolved"
    /\ UNCHANGED <<useSpaces, estimate, printed>>
    /\ UNCHANGED <<usesTimeTracking, mergeVars, accVars, convFields, callVars, passVars, gotoVars, declVars, dbgVars>>

\* the emitted line is printed
PrintLine ==
    /\ epc = "resolved"
    /\ printed' = getLengthOfLine(Measured(eLine))
    /\ epc' = "printed"
    /\ UNCHANGED <<useSpaces, eLine, estimate>>
    /\ UNCHANGED <<usesTimeTracking, mergeVars, accVars, convFields, callVars, passVars, gotoVars, declVars, dbgVars>>

InitEstimate ==
    /\ MergeIdle
    /\ AcceptIdle
    /\ NewConverter
    /\ DeclIdle
    /\ DebugIdle
    /\ CollapseIdle
    /\ usesTimeTracking \in BOOLEAN
    /\ useSpaces \in BOOLEAN
    /\ \E n \in 1..MaxStmts : eLine \in [1..n -> EstimatedStatements]
    /\ epc = "lowered"
    /\ estimate = 0
    /\ printed = 0

NextEstimate ==
    EstimateLine \/ ReplaceGotoLabels \/ ConvertLineFuncCalls \/ PrintLine

SpecEstimate == InitEstimate /\ [][NextEstimate]_vars

----------------------------------------------------------------------------
(* resolveGotoChains: jumps to lines that are only a jump are redirected   *)

\* the lines of a program as the pass reads them: line k carries the
\* label k, target is the label the jump of the line goes to (0: the line
\* holds no jump), only says that the jump is all the line holds
JumpLines(n) ==
    { ls \in [1..n -> [only : BOOLEAN, target : 0..n]] :
        \A k \in 1..n : ls[k].only => ls[k].target # 0 }

\* the target of the jump that the target line of line k consists of
Collapsed(ls, k) == ls[ls[k].target].target

\* a pass that takes every jump to a jump-only line for work to do
Rewritable_EvenIfSame(ls, k) ==
    /\ ls[k].target # 0
    /\ ls[ls[k].target].only

\* the jump of line k goes to a line that is only a jump, and to
\* redirect it changes its target
Rewritable(ls, k) ==
    /\ ls[k].target # 0
    /\ ls[ls[k].target].only
    /\ Collapsed(ls, k) # ls[k].target

\* the sweep looks at the jump of line gk and redirects it, in place, to
\* where the jump it leads to goes
CollapseVisit ==
    /\ gpc \in {"first", "second"}
    /\ gk <= Len(gLines)
    /\ IF Rewritable(gLines, gk)
         THEN /\ gLines' = [gLines EXCEPT ![gk].target = Collapsed(gLines, gk)]
              /\ gChanged' = TRUE
         ELSE UNCHANGED <<gLines, gChanged>>
    /\ gk' = gk + 1
    /\ UNCHANGED <<gpc, gFirst, gOrig>>
    /\ UNCHANGED <<usesTimeTracking, mergeVars, accVars, convFields, callVars, passVars, estVars, declVars, dbgVars>>

\* the end of a sweep: another sweep if this one redirected a jump; if
\* not the pass returns, and it is run a second time on what it returned
CollapseSweepEnd ==
    /\ gpc \in {"first", "second"}
    /\ gk > Len(gLines)
    /\ gk' = 1
    /\ gChanged' = FALSE
    /\ IF gChanged
         THEN UNCHANGED <<gpc, gFirst>>
         ELSE IF gpc = "first"
                THEN gpc' = "second" /\ gFirst' = gLines
                ELSE gpc' = "done" /\ UNCHANGED gFirst
    /\ UNCHANGED <<gLines, gOrig>>
    /\ UNCHANGED <<usesTimeTracking, mergeVars, accVars, convFields, callVars, passVars, estVars, declVars, dbgVars>>

InitCollapse ==
    /\ usesTimeTracking = FALSE
    /\ MergeIdle
    /\ AcceptIdle
    /\ NewConverter
    /\ DeclIdle
    /\ DebugIdle
    /\ EstimateIdle
    /\ \E n \in 0..MaxJumpLines : gLines \in JumpLines(n)
    /\ gOrig = gLines
    /\ gFirst = <<>>
    /\ gpc = "first"
    /\ gk = 1
    /\ gChanged = FALSE

NextCollapse == CollapseVisit \/ CollapseSweepEnd

\* the pass is sequential code that runs until it returns
SpecCollapse == InitCollapse /\ [][NextCollapse]_vars /\ WF_vars(NextCollapse)

----------------------------------------------------------------------------
(* ExtProgramm.Accept: the traversal that splices replacements into the    *)
(* list it iterates                                                        *)

\* the k-th line of the program as parsed
OrigLine(k) == [kind |-> "line", id |-> k]

\* a line made by the callback, and a node that is no line
NewLine == [kind |-> "line", id |-> 0]
OtherNode == [kind |-> "other", id |-> 0]

\* parser.NodeReplacement.Replacement: what a callback may answer with
Replacements ==
    UNION { [1..n -> {NewLine, OtherNode}] : n \in 0..MaxRepl }

\* what p.Lines[i].Accept(v) may answer: nil, an error that is no
\* NodeReplacement, or a NodeReplacement
AcceptResults ==
    {[kind |-> "nil", repl |-> <<>>], [kind |-> "error", repl |-> <<>>]}
        \cup {[kind |-> "replacement", repl |-> r] : r \in Replacements}

\* patchExtLines, line 461: an element that is no ExtLine makes it panic
PatchPanics(repl) == \E k \in 1..Len(repl) : repl[k].kind # "line"

\* patchExtLines: old[:position] ++ repl ++ old[position+1:]
patchExtLines(old, position, repl) ==
    SubSeq(old, 1, position - 1) \o repl \o SubSeq(old, position + 1, Len(old))

\* line 461: elem.(ExtLine)
IsExtLine(node) == node.kind = "line"

\* a patch that writes the lines of the replacement into the list it was
\* given, up to the element that makes it panic
PanicLeaves_Partial(old, position, repl) ==
    SubSeq(old, 1, position - 1) \o SelectSeq(repl, IsExtLine)

\* lines 458-465 and 407: patchExtLines fills a slice of its own and
\* panics before it returns, so p.Lines is never assigned
PanicLeaves(old, position, repl) == old

\* a loop that forgets the replacement's length
NextIndex_NoAdjust(idx, repl) == idx + 1

\* lines 408 and 400: i += len(repl.Replacement) - 1, then i++
NextIndex(idx, repl) == (idx + (Len(repl) - 1)) + 1

\* line 396: v.Visit(p, PreVisit)
AcceptPre ==
    /\ apc = "pre"
    /\ \E err \in {"nil", "error"} :
         IF err # "nil"
           THEN apc' = "returned" /\ aret' = err
           ELSE apc' = "loop" /\ aret' = aret
    /\ UNCHANGED <<pLines, ai, pOrig, visited, replOf, usesTimeTracking, mergeVars, convFields, callVars, passVars, estVars, gotoVars, declVars, dbgVars>>

\* lines 400-414: one round of the loop over p.Lines. visitErr is what
\* v.Visit(p, i) answers, res what p.Lines[i].Accept(v) answers.
AcceptChild ==
    /\ apc = "loop"
    /\ ai <= Len(pLines)
    /\ \E visitErr \in {"nil", "error"} :
         IF visitErr # "nil"
           THEN /\ apc' = "returned"
                /\ aret' = visitErr
                /\ UNCHANGED <<pLines, ai, visited, replOf>>
           ELSE /\ visited' = Append(visited, pLines[ai])
                /\ \E res \in AcceptResults :
                     IF res.kind = "nil"
                       THEN /\ ai' = ai + 1
                            /\ UNCHANGED <<pLines, apc, aret, replOf>>
                       ELSE IF res.kind = "error"
                       THEN /\ apc' = "returned"
                            /\ aret' = "error"
                            /\ UNCHANGED <<pLines, ai, replOf>>
                       ELSE IF PatchPanics(res.repl)
                       THEN /\ apc' = "panic"
                            /\ pLines' = PanicLeaves(pLines, ai, res.repl)
                            /\ UNCHANGED <<ai, aret, replOf>>
                       ELSE /\ pLines' = patchExtLines(pLines, ai, res.repl)
                            /\ ai' = NextIndex(ai, res.repl)
                            /\ replOf' = IF pLines[ai].id \in 1..Len(replOf)
                                            THEN [replOf EXCEPT ![pLines[ai].id] =
                                                    [done |-> TRUE, repl |-> res.repl]]
                                            ELSE replOf
                            /\ UNCHANGED <<apc, aret>>
    /\ UNCHANGED <<pOrig, usesTimeTracking, mergeVars, convFields, callVars, passVars, estVars, gotoVars, declVars, dbgVars>>

\* line 415: return v.Visit(p, PostVisit)
AcceptPost ==
    /\ apc = "loop"
    /\ ai > Len(pLines)
    /\ apc' = "returned"
    /\ aret' \in {"nil", "error"}
    /\ UNCHANGED <<pLines, ai, pOrig, visited, replOf, usesTimeTracking, mergeVars, convFields, callVars, passVars, estVars, gotoVars, declVars, dbgVars>>

InitAccept ==
    /\ usesTimeTracking = FALSE
    /\ MergeIdle
    /\ NewConverter
    /\ DeclIdle
    /\ DebugIdle
    /\ EstimateIdle
    /\ CollapseIdle
    /\ \E n \in 0..MaxChildren : pLines = [k \in 1..n |-> OrigLine(k)]
    /\ pOrig = pLines
    /\ ai = 1
    /\ apc = "pre"
    /\ aret = "none"
    /\ visited = <<>>
    /\ replOf = [k \in 1..Len(pLines) |-> [done |-> FALSE, repl |-> <<>>]]

NextAccept == AcceptPre \/ AcceptChild \/ AcceptPost

SpecAccept == InitAccept /\ [][NextAccept]_vars

----------------------------------------------------------------------------
(* ConstDeclaration.Accept: the traversal of a node with one child, the    *)
(* value of the declaration                                                *)

\* a parser.Expression
ExprNode(k) == [kind |-> "expr", id |-> k]

\* line 449: Replacement[0].(parser.Expression)
IsExpression(node) == node.kind = "expr"

\* the number of distinct expressions a declaration's value is drawn from
MaxValues == 4

\* the values a declaration may hold when it is visited
Expressions == {ExprNode(k) : k \in 1..MaxValues}

\* what l.Value.Accept(v) may answer: nil, an error that is no
\* NodeReplacement, or a NodeReplacement of any number of nodes
ValueResults ==
    {[kind |-> "nil", repl |-> <<>>], [kind |-> "error", repl |-> <<>>]}
        \cup {[kind |-> "replacement", repl |-> r] :
                 r \in UNION { [1..n -> Expressions \cup {OtherNode}] :
                                n \in 0..MaxRepl }}

\* line 449: Replacement[0] is out of range when the replacement is
\* empty, and the type assertion fails on a node that is no expression
ValuePanics(repl) == repl = <<>> \/ ~IsExpression(repl[1])

\* lines 442-445: v.Visit(l, PreVisit); its error ends the traversal
DeclPre ==
    /\ dpc = "pre"
    /\ \E err \in {"nil", "error"} :
         dpc' = IF err # "nil" THEN "failed" ELSE "value"
    /\ UNCHANGED <<dValue, dAnswer>>
    /\ UNCHANGED <<usesTimeTracking, mergeVars, accVars, convFields, callVars, passVars, estVars, gotoVars, dbgVars>>

\* lines 446-454: the value is visited and what it answers is acted on
DeclValue ==
    /\ dpc = "value"
    /\ \E res \in ValueResults :
         /\ dAnswer' = res
         /\ IF res.kind = "nil"
              THEN dpc' = "post" /\ UNCHANGED dValue
              ELSE IF res.kind = "error"
              THEN dpc' = "failed" /\ UNCHANGED dValue
              ELSE IF ValuePanics(res.repl)
              THEN dpc' = "panic" /\ UNCHANGED dValue
              ELSE dpc' = "post" /\ dValue' = res.repl[1]
    /\ UNCHANGED <<usesTimeTracking, mergeVars, accVars, convFields, callVars, passVars, estVars, gotoVars, dbgVars>>

\* line 455: return v.Visit(l, PostVisit)
DeclPost ==
    /\ dpc = "post"
    /\ \E err \in {"nil", "error"} :
         dpc' = IF err # "nil" THEN "failed" ELSE "returned"
    /\ UNCHANGED <<dValue, dAnswer>>
    /\ UNCHANGED <<usesTimeTracking, mergeVars, accVars, convFields, callVars, passVars, estVars, gotoVars, dbgVars>>

InitDecl ==
    /\ usesTimeTracking = FALSE
    /\ MergeIdle
    /\ AcceptIdle
    /\ NewConverter
    /\ EstimateIdle
    /\ CollapseIdle
    /\ DebugIdle
    /\ dValue \in Expressions
    /\ dpc = "pre"
    /\ dAnswer = [kind |-> "none", repl |-> <<>>]

NextDecl == DeclPre \/ DeclValue \/ DeclPost

SpecDecl == InitDecl /\ [][NextDecl]_vars

----------------------------------------------------------------------------
(* The debugger shell: load and the commands reset, choose, pause,         *)
(* continue and step                                                       *)

\* the largest number of scripts a debugger is loaded with
MaxScripts == 2

\* line 176: vm.StatePaused
StatePaused == "StatePaused"

\* line 195: vm.StateTerminated
StateTerminated == "StateTerminated"

\* lines 176, 195: a state that is neither of the two the shell asks for
StateRunning == "StateRunning"

VMStates == {StatePaused, StateRunning, StateTerminated}

\* helper.Vms[script].State(), scripts counted from 0 as in the source
VmState(states, script) == states[script + 1]

\* helper is set once load has returned
Loaded == vmStates # <<>>

\* line 82: the programs are loaded paused
FreshVms(n) == [script \in 1..n |-> StatePaused]

\* what the virtual machines may have become while the coordinator runs
\* them: a terminated one stays terminated
Progress(states) ==
    {t \in [1..Len(states) -> VMStates] :
        \A script \in 1..Len(states) :
            states[script] = StateTerminated => t[script] = StateTerminated}

RunningAfterLoad_Keep == running

\* line 51: running = false
RunningAfterLoad == FALSE

\* lines 38-39, 48-83: the first load, of one script or more
Load ==
    /\ ~Loaded
    /\ \E n \in 1..MaxScripts : vmStates' = FreshVms(n)
    /\ running' = RunningAfterLoad
    /\ CurrentScript' = 0
    /\ runCalls' = 0
    /\ last' = [NoCommand EXCEPT !.cmd = "load", !.wasRunning = running]
    /\ UNCHANGED <<usesTimeTracking, mergeVars, accVars, convFields, callVars, passVars, estVars, gotoVars, declVars>>

\* lines 121-124: Coordinator.Terminate() and load(cliargs), which builds
\* a new helper for the same scripts
Reset ==
    /\ Loaded
    /\ vmStates' = FreshVms(Len(vmStates))
    /\ running' = RunningAfterLoad
    /\ CurrentScript' = 0
    /\ runCalls' = 0
    /\ last' = [NoCommand EXCEPT !.cmd = "reset", !.wasRunning = running]
    /\ UNCHANGED <<usesTimeTracking, mergeVars, accVars, convFields, callVars, passVars, estVars, gotoVars, declVars>>

\* lines 145-158: the argument is missing, names script i or names none
Choose ==
    /\ Loaded
    /\ \/ \E script \in 0..(Len(vmStates) - 1) : CurrentScript' = script
       \/ CurrentScript' = CurrentScript
    /\ last' = [NoCommand EXCEPT !.cmd = "choose", !.wasRunning = running,
                                 !.current = CurrentScript']
    /\ UNCHANGED <<running, vmStates, runCalls>>
    /\ UNCHANGED <<usesTimeTracking, mergeVars, accVars, convFields, callVars, passVars, estVars, gotoVars, declVars>>

\* lines 164-166
Pause ==
    /\ Loaded
    /\ last' = [NoCommand EXCEPT !.cmd = "pause", !.wasRunning = running,
                                 !.current = CurrentScript,
                                 !.state = VmState(vmStates, CurrentScript),
                                 !.first = VmState(vmStates, 0),
                                 !.call = "Pause", !.target = CurrentScript]
    /\ UNCHANGED <<running, CurrentScript, vmStates, runCalls>>
    /\ UNCHANGED <<usesTimeTracking, mergeVars, accVars, convFields, callVars, passVars, estVars, gotoVars, declVars>>

\* lines 173-184
Continue ==
    /\ Loaded
    /\ running' = TRUE
    /\ runCalls' = IF ~running THEN runCalls + 1 ELSE runCalls
    /\ last' = [NoCommand EXCEPT
                   !.cmd = "continue", !.wasRunning = running,
                   !.ran = ~running,
                   !.current = CurrentScript,
                   !.state = VmState(vmStates, CurrentScript),
                   !.first = VmState(vmStates, 0),
                   !.call = IF running /\ VmState(vmStates, CurrentScript) = StatePaused
                              THEN "Resume" ELSE "none",
                   !.target = CurrentScript,
                   !.refused = running /\ VmState(vmStates, CurrentScript) # StatePaused]
    /\ UNCHANGED <<CurrentScript, vmStates>>
    /\ UNCHANGED <<usesTimeTracking, mergeVars, accVars, convFields, callVars, passVars, estVars, gotoVars, declVars>>

\* lines 191-199: when the coordinator is started here, the machines run
\* before their state is read
Step ==
    /\ Loaded
    /\ running' = TRUE
    /\ runCalls' = IF ~running THEN runCalls + 1 ELSE runCalls
    /\ vmStates' \in IF ~running THEN Progress(vmStates) ELSE {vmStates}
    /\ last' = [NoCommand EXCEPT
                   !.cmd = "step", !.wasRunning = running,
                   !.ran = ~running,
                   !.current = CurrentScript,
                   !.state = VmState(vmStates', CurrentScript),
                   !.first = VmState(vmStates', 0),
                   !.call = IF VmState(vmStates', 0) = StateTerminated
                              THEN "none" ELSE "Step",
                   !.target = CurrentScript,
                   !.refused = VmState(vmStates', 0) = StateTerminated]
    /\ UNCHANGED CurrentScript
    /\ UNCHANGED <<usesTimeTracking, mergeVars, accVars, convFields, callVars, passVars, estVars, gotoVars, declVars>>

\* lines 87-106: a virtual machine the coordinator runs pauses, goes on
\* or finishes; its handlers only print
VMProgress ==
    /\ Loaded
    /\ running
    /\ vmStates' \in Progress(vmStates) \ {vmStates}
    /\ UNCHANGED <<running, CurrentScript, runCalls, last>>
    /\ UNCHANGED <<usesTimeTracking, mergeVars, accVars, convFields, callVars, passVars, estVars, gotoVars, declVars>>

InitDebug ==
    /\ usesTimeTracking = FALSE
    /\ MergeIdle
    /\ AcceptIdle
    /\ NewConverter
    /\ EstimateIdle
    /\ CollapseIdle
    /\ DeclIdle
    /\ DebugIdle

NextDebug ==
    \/ Load
    \/ Reset
    \/ Choose
    \/ Pause
    \/ Continue
    \/ Step
    \/ VMProgress

SpecDebug == InitDebug /\ [][NextDebug]_vars

----------------------------------------------------------------------------
(* Converter.Convert: the lowering traversal and the passes after it        *)

\* a node of the program; id is the loop id a while loop or a lowered
\* break/continue holds, 0 otherwise
Node(kind) == [kind |-> kind, id |-> 0]

\* the kinds of node a parsed program is made of: "stmt" is any node the
\* callback leaves alone, "while" and "endwhile" are the pre-visit and the
\* post-visit of a nast.WhileLoop, "break" is a nast.BreakStatement or a
\* nast.ContinueStatement (they differ in the label they jump to, not in
\* the loop), "macro" is a nast.MacroInsetion of the macro that "macrodef"
\* defines, "trigger" is a nast.Trigger of another kind than "macroleft":
\* no StatementLine, and the callback leaves it where it is
SourceKinds ==
    {"stmt", "while", "endwhile", "break", "macrodef", "macro", "trigger"}

\* the positions of the while loops that are open after the first k nodes
RECURSIVE OpenStack(_, _)
OpenStack(p, k) ==
    IF k = 0 THEN <<>>
    ELSE LET s == OpenStack(p, k - 1) IN
         IF p[k].kind = "while" THEN Append(s, k)
         ELSE IF p[k].kind = "endwhile" THEN SubSeq(s, 1, Len(s) - 1)
         ELSE s

RECURSIVE WellNested(_, _, _)
WellNested(p, k, depth) ==
    IF k > Len(p) THEN depth = 0
    ELSE IF p[k].kind = "while" THEN WellNested(p, k + 1, depth + 1)
    ELSE IF p[k].kind = "endwhile" THEN depth > 0 /\ WellNested(p, k + 1, depth - 1)
    ELSE WellNested(p, k + 1, depth)

\* every program of at most MaxProg nodes: a tree, so every loop is closed
Programs ==
    { p \in UNION { [1..n -> {Node(k) : k \in SourceKinds}] : n \in 0..MaxProg } :
        WellNested(p, 1, 0) }

\* the body of the macro: a loop that holds a break
MacroBody == <<Node("while"), Node("break"), Node("endwhile")>>

\* the passes of Convert in the order of lines 101-156
PassOrder ==
    <<"convertNodes", "addFinalGoto", "resolveGotoChains", "removeUnusedLabels",
      "mergeNololElements", "removeDuplicateGotos", "findJumpLabels",
      "replaceGotoLabels", "convertLineFuncCalls", "sexpOptimizer">>

PassIndex(pass) == CHOOSE k \in 1..Len(PassOrder) : PassOrder[k] = pass

\* a Convert that substitutes the jump targets before it builds the
\* label table
NextPass_TableLate(pass) ==
    IF pass = "removeDuplicateGotos" THEN "replaceGotoLabels"
    ELSE IF pass = "replaceGotoLabels" THEN "findJumpLabels"
    ELSE IF pass = "findJumpLabels" THEN "convertLineFuncCalls"
    ELSE IF PassIndex(pass) < Len(PassOrder) THEN PassOrder[PassIndex(pass) + 1]
    ELSE "insertLineCounter"

\* the statement after the error check of a pass that returned nil
NextPass(pass) ==
    IF PassIndex(pass) < Len(PassOrder) THEN PassOrder[PassIndex(pass) + 1]
    ELSE "insertLineCounter"

\* a Convert that goes on after an error
AfterPass_Swallow(pass, err) == NextPass(pass)

\* lines 102-104 and the like: if err != nil { return nil, err }
AfterPass(pass, err) == IF err # NoError THEN "returned" ELSE NextPass(pass)

\* the error a pass returns
PassError(pass) == [pass |-> pass, span |-> FALSE]

\* a structural error of the lowering pass
StructuralError == [pass |-> "convertNodes", span |-> TRUE]

\* lines 178-188: the error of a program that is too large
TooLargeError == [pass |-> "validate", span |-> TRUE]

\* line 84: the caller has the result of Convert, and the Converter is
\* free for the next call
CallerTakesResult ==
    /\ cpc = "returned"
    /\ cpc' = "idle"
    /\ ran' = <<>>
    /\ nElems' = 0
    /\ retErr' = NoError
    /\ retProg' = Nil
    /\ firstErr' = NoError
    /\ unconverted' = FALSE
    /\ budgets' = {}
    /\ UNCHANGED <<prog, tp, calls, convFields, usesTimeTracking, mergeVars, accVars, estVars, gotoVars, declVars, dbgVars>>

\* lines 94-99: Convert is called with a parsed program
ConvertCall ==
    /\ cpc = "idle"
    /\ calls < MaxCalls
    /\ calls' = calls + 1
    /\ prog' \in Programs
    /\ usesTimeTracking' \in BOOLEAN
    /\ tp' = 1
    /\ cpc' = "convertNodes"
    /\ ran' = <<"convertNodes">>
    /\ nElems' = 0
    /\ retErr' = NoError
    /\ retProg' = Nil
    /\ firstErr' = NoError
    /\ unconverted' = FALSE
    /\ budgets' = {}
    /\ UNCHANGED <<convFields, mergeVars, accVars, estVars, gotoVars, declVars, dbgVars>>

\* the traversal stops with the error err: convertNodes returns it and
\* Convert acts on it (lines 101-104)
LowerFails(err) ==
    /\ firstErr' = (IF firstErr = NoError THEN err ELSE firstErr)
    /\ cpc' = AfterPass("convertNodes", err)
    /\ IF AfterPass("convertNodes", err) = "returned"
         THEN retErr' = err /\ retProg' = Nil
         ELSE UNCHANGED <<retErr, retProg>>
    /\ prog' = <<>>
    /\ tp' = 0

Visiting(kinds) ==
    /\ cpc = "convertNodes"
    /\ tp <= Len(prog)
    /\ prog[tp].kind \in kinds

\* lines 203-269: a node the callback leaves as it is
LowerOther ==
    /\ Visiting({"stmt", "goto", "trigger"})
    /\ tp' = tp + 1
    /\ UNCHANGED <<prog, cpc, retErr, retProg, firstErr>>
    /\ UNCHANGED <<convFields, nElems, ran, calls, usesTimeTracking, mergeVars, accVars, passVars, estVars, gotoVars, declVars, dbgVars>>

\* a counter that counts the first loop only
NextLoopcounter_Stuck(n) == IF n = 0 THEN 1 ELSE n

\* line 241: c.loopcounter++
NextLoopcounter(n) == n + 1

\* lines 239-243: pre-visit of a while loop
LowerWhilePre ==
    /\ Visiting({"while"})
    /\ loopcounter' = NextLoopcounter(loopcounter)
    /\ loopLevel' = Append(loopLevel, NextLoopcounter(loopcounter))
    /\ prog' = [prog EXCEPT ![tp].id = NextLoopcounter(loopcounter)]
    /\ tp' = tp + 1
    /\ UNCHANGED <<cpc, retErr, retProg, firstErr>>
    /\ UNCHANGED <<macroLevel, macros>>
    /\ UNCHANGED <<nElems, ran, calls, usesTimeTracking, mergeVars, accVars, passVars, estVars, gotoVars, declVars, dbgVars>>

\* line 322: maxlen := c.maxLineLength(), once for every run of the
\* packer
PackerRuns == budgets \cup {maxLineLength}

\* lines 244-248: post-visit of a while loop; convertWhileLoop packs the
\* lines of the body (mergeNololNestableElements) and answers with a
\* replacement or with an error
LowerWhilePost ==
    /\ Visiting({"endwhile"})
    /\ IF loopLevel = <<>>
         THEN /\ cpc' = "panic"
              /\ UNCHANGED <<loopLevel, prog, tp, retErr, retProg, firstErr, budgets>>
         ELSE /\ loopLevel' = SubSeq(loopLevel, 1, Len(loopLevel) - 1)
              /\ budgets' = PackerRuns
              /\ \E result \in {NoError, StructuralError} :
                   IF result = NoError
                     THEN /\ tp' = tp + 1
                          /\ UNCHANGED <<prog, cpc, retErr, retProg, firstErr>>
                     ELSE LowerFails(result)
    /\ UNCHANGED <<loopcounter, macroLevel, macros>>
    /\ UNCHANGED <<nElems, ran, calls, usesTimeTracking, mergeVars, accVars, unconverted, estVars, gotoVars, declVars, dbgVars>>

\* convertBreakStatement, convertContinueStatement: outside any loop the
\* statement is an error
convertBreakFails == loopLevel = <<>>

\* convertBreakStatement, convertContinueStatement: the jump to the end or
\* to the head of the loop on top of loopLevel
convertBreakStatement == [kind |-> "goto", id |-> loopLevel[Len(loopLevel)]]

\* lines 263-266: a break or a continue is visited
LowerBreak ==
    /\ Visiting({"break"})
    /\ IF convertBreakFails
         THEN LowerFails(StructuralError)
         ELSE /\ prog' = [prog EXCEPT ![tp] = convertBreakStatement]
              /\ tp' = tp + 1
              /\ UNCHANGED <<cpc, retErr, retProg, firstErr>>
    /\ UNCHANGED <<convFields, nElems, ran, calls, usesTimeTracking, mergeVars, accVars, passVars, estVars, gotoVars, declVars, dbgVars>>

\* convertMacroDef (lines 212-217): the macro is recorded and its
\* definition erased
LowerMacroDef ==
    /\ Visiting({"macrodef"})
    /\ macros' = macros \cup {"m"}
    /\ prog' = patchExtLines(prog, tp, <<>>)
    /\ UNCHANGED <<tp, cpc, retErr, retProg, firstErr>>
    /\ UNCHANGED <<loopcounter, loopLevel, macroLevel>>
    /\ UNCHANGED <<nElems, ran, calls, usesTimeTracking, mergeVars, accVars, passVars, estVars, gotoVars, declVars, dbgVars>>

\* convertMacroInsertion: the insertion of a macro that is not defined is
\* an error
convertMacroInsertionFails == "m" \notin macros

\* convertMacroInsertion: a copy of the body of the macro, and the exit
\* marker after it
convertMacroInsertion == MacroBody \o <<Node("macroleft")>>

\* lines 218-222: the frame is pushed, then the insertion is expanded in
\* its place, and the traversal goes on with the expansion
LowerMacroInsertion ==
    /\ Visiting({"macro"})
    /\ macroLevel' = Append(macroLevel, "m")
    /\ IF convertMacroInsertionFails
         THEN LowerFails(StructuralError)
         ELSE /\ prog' = patchExtLines(prog, tp, convertMacroInsertion)
              /\ UNCHANGED <<tp, cpc, retErr, retProg, firstErr>>
    /\ UNCHANGED <<loopcounter, loopLevel, macros>>
    /\ UNCHANGED <<nElems, ran, calls, usesTimeTracking, mergeVars, accVars, passVars, estVars, gotoVars, declVars, dbgVars>>

\* lines 258-262: the exit marker pops the frame and is erased
LowerTrigger ==
    /\ Visiting({"macroleft"})
    /\ IF macroLevel = <<>>
         THEN /\ cpc' = "panic"
              /\ UNCHANGED <<macroLevel, prog>>
         ELSE /\ macroLevel' = SubSeq(macroLevel, 1, Len(macroLevel) - 1)
              /\ prog' = patchExtLines(prog, tp, <<>>)
              /\ UNCHANGED cpc
    /\ UNCHANGED <<tp, retErr, retProg, firstErr>>
    /\ UNCHANGED <<loopcounter, loopLevel, macros>>
    /\ UNCHANGED <<nElems, ran, calls, usesTimeTracking, mergeVars, accVars, passVars, estVars, gotoVars, declVars, dbgVars>>

\* lines 101-104: convertNodes returned nil; what it did not convert is
\* still among the elements
LowerDone ==
    /\ cpc = "convertNodes"
    /\ tp > Len(prog)
    /\ cpc' = AfterPass("convertNodes", NoError)
    /\ unconverted' = (\E k \in 1..Len(prog) : prog[k].kind = "trigger")
    /\ prog' = <<>>
    /\ tp' = 0
    /\ UNCHANGED <<retErr, retProg, firstErr, budgets>>
    /\ UNCHANGED <<convFields, nElems, ran, calls, usesTimeTracking, mergeVars, accVars, estVars, gotoVars, declVars, dbgVars>>

\* the number of elements a pass leaves: merging (line 126) leaves any
\* number of lines, removeDuplicateGotos deletes lines, the other passes
\* keep the lines
ElementsAfter(pass, n) ==
    IF pass = "mergeNololElements" THEN 1..MaxOutLines
    ELSE IF pass = "removeDuplicateGotos" /\ n > 1 THEN {n - 1, n}
    ELSE {n}

\* a wrapper that hands every element to the packer
FoundUnconverted_Unchecked(u) == FALSE

\* lines 300-306: an element that is no StatementLine is an error
FoundUnconverted(u) == u

\* the errors a pass may return: mergeNololElements returns one when it
\* finds an element that is no StatementLine
PassResults(pass) ==
    IF pass = "mergeNololElements" /\ FoundUnconverted(unconverted)
      THEN {PassError(pass)}
      ELSE {NoError, PassError(pass)}

\* lines 106-156: one pass after the lowering, and the check of its error
RunPass ==
    /\ cpc \in {PassOrder[k] : k \in 2..Len(PassOrder)}
    /\ ran' = Append(ran, cpc)
    /\ budgets' = IF cpc = "mergeNololElements" /\ ~FoundUnconverted(unconverted)
                     THEN PackerRuns
                     ELSE budgets
    /\ UNCHANGED unconverted
    /\ \E err \in PassResults(cpc) :
         /\ firstErr' = (IF firstErr = NoError THEN err ELSE firstErr)
         /\ cpc' = AfterPass(cpc, err)
         /\ IF AfterPass(cpc, err) = "returned"
              THEN retErr' = err /\ retProg' = Nil /\ UNCHANGED nElems
              ELSE /\ UNCHANGED <<retErr, retProg>>
                   /\ IF err = NoError
                        THEN nElems' \in ElementsAfter(cpc, nElems)
                        ELSE UNCHANGED nElems
    /\ UNCHANGED <<prog, tp, calls, convFields, usesTimeTracking, mergeVars, accVars, estVars, gotoVars, declVars, dbgVars>>

\* lines 158-160: the line counter is inserted into every line
InsertLineCounter ==
    /\ cpc = "insertLineCounter"
    /\ ran' = IF usesTimeTracking THEN Append(ran, "insertLineCounter") ELSE ran
    /\ cpc' = "emit"
    /\ UNCHANGED <<prog, tp, nElems, retErr, retProg, firstErr, calls>>
    /\ UNCHANGED <<convFields, usesTimeTracking, mergeVars, accVars, passVars, estVars, gotoVars, declVars, dbgVars>>

\* removeFinalGotoIfNeeded (line 175): the terminal jump is dropped, and
\* with it the last line when the jump was all it held
RemoveFinalGotoResults(n) == IF n > 0 THEN {n - 1, n} ELSE {n}

\* a check that lets 21 lines pass
TooLarge_OffByOne(n) == n > 21

\* line 177: len(out.Lines) > 20
TooLarge(n) == n > 20

\* lines 163-191: the program is built (line 167 panics on an element
\* that is no StatementLine), the terminal jump removed, the line count
\* checked
Emit ==
    /\ cpc = "emit"
    /\ IF unconverted
         THEN /\ cpc' = "panic"
              /\ UNCHANGED <<ran, retProg, retErr>>
         ELSE /\ cpc' = "returned"
              /\ ran' = ran \o <<"removeFinalGotoIfNeeded", "validate">>
              /\ \E n \in RemoveFinalGotoResults(nElems) :
                   /\ retProg' = [isNil |-> FALSE, lines |-> n]
                   /\ retErr' = IF TooLarge(n) THEN TooLargeError ELSE NoError
    /\ UNCHANGED <<prog, tp, nElems, firstErr, calls>>
    /\ UNCHANGED <<convFields, usesTimeTracking, mergeVars, accVars, passVars, estVars, gotoVars, declVars, dbgVars>>

InitConvert ==
    /\ usesTimeTracking = FALSE
    /\ MergeIdle
    /\ AcceptIdle
    /\ NewConverter
    /\ DeclIdle
    /\ DebugIdle
    /\ EstimateIdle
    /\ CollapseIdle

NextConvert ==
    \/ ConvertCall
    \/ CallerTakesResult
    \/ LowerOther
    \/ LowerWhilePre
    \/ LowerWhilePost
    \/ LowerBreak
    \/ LowerMacroDef
    \/ LowerMacroInsertion
    \/ LowerTrigger
    \/ LowerDone
    \/ RunPass
    \/ InsertLineCounter
    \/ Emit

SpecConvert == InitConvert /\ [][NextConvert]_vars

----------------------------------------------------------------------------
(* Properties of the packer *)

RECURSIVE Flatten(_)
Flatten(ls) == IF ls = <<>> THEN <<>> ELSE Head(ls).stmts \o Flatten(Tail(ls))

IsPrefix(s, t) == Len(s) <= Len(t) /\ SubSeq(t, 1, Len(s)) = s

\* the packer returned without error
MergeSucceeded == mpc = "done"

\* C1: when the packer succeeds, the statements of the output lines, in
\* order, are exactly the statements of the input lines, in order, and
\* every labelled input line is the first input line of an output line
\* that carries the same label.
C1_PackingPreservesStatements ==
    MergeSucceeded =>
        /\ Flatten(newElements) = Flatten(lines)
        /\ \A k \in 1..Len(lines) :
              lines[k].label # NoLabel =>
                \E o \in 1..Len(newElements) :
                    /\ newElements[o].label = lines[k].label
                    /\ newElements[o].pos = lines[k].pos
                    /\ IsPrefix(lines[k].stmts, newElements[o].stmts)

\* a successful run that merged two lines and kept a labelled line that
\* is not the first line of the input
C1_Witness ==
    /\ MergeSucceeded
    /\ Len(lines) = 3
    /\ Len(newElements) = 2
    /\ \E k \in 2..Len(lines) : lines[k].label # NoLabel

\* C2: when the packer succeeds, every line it returns is within the
\* effective budget.
C2_ReturnedLinesWithinBudget ==
    MergeSucceeded =>
        \A o \in 1..Len(newElements) :
            getLengthOfLine(newElements[o].stmts) <= maxLineLength

\* C4: in one invocation, a statement that is not the first of its output
\* line comes from an input line without label and without hasBOL, and a
\* statement that is not the last of its output line comes from an input
\* line without hasEOL.
C4_BoundariesRespected ==
    stage = "single" =>
        \A o \in 1..Len(newElements) :
            LET st == newElements[o].stmts IN
            \A j \in 1..Len(st) :
                /\ j > 1 => /\ lines[st[j].id].label = NoLabel
                            /\ ~lines[st[j].id].hasBOL
                /\ j < Len(st) => ~lines[st[j].id].hasEOL

\* a line with hasEOL was absorbed, and the unmarked line after it
\* started a new output line
C4_Witness ==
    /\ stage = "single"
    /\ MergeSucceeded
    /\ Len(lines) = 3
    /\ lines[2].hasEOL /\ MayAppend(lines[2])
    /\ MayAppend(lines[3])
    /\ Len(newElements) = 2
    /\ Len(newElements[1].stmts) = 2

\* C5: after the packer ran on a nested block and again on the list that
\* holds the block's output, no statement of a line marked hasBOL shares
\* a physical line with statements before it, and no statement that
\* followed a line marked hasEOL shares a physical line with it.
C5_BoundariesAcrossInvocations ==
    (stage = "top" /\ MergeSucceeded) =>
        \A o \in 1..Len(newElements) :
            LET st == newElements[o].stmts IN
            \A j \in 1..Len(st) :
                /\ j > 1 => ~orig[st[j].id].hasBOL
                /\ j < Len(st) => ~orig[st[j].id].hasEOL

\* C16: for any two consecutive lines A and B that a successful run of
\* the packer returns, the last input line of A has hasEOL, or the first
\* input line of B has a label or hasBOL, or A with the statements of
\* B's first input line is over the budget; so two adjacent lines
\* without label and markers that fit the budget together share a line.
C16_GreedyMaximal ==
    (stage = "single" /\ MergeSucceeded) =>
        \A o \in 1..(Len(newElements) - 1) :
            LET A == newElements[o]
                B == newElements[o + 1]
                lastA == lines[A.stmts[Len(A.stmts)].id]
                firstB == lines[B.stmts[1].id]
            IN  \/ lastA.hasEOL
                \/ firstB.label # NoLabel
                \/ firstB.hasBOL
                \/ getLengthOfLine(A.stmts \o firstB.stmts) > maxLineLength

\* three plain lines of 22 characters under the budget 66: two share a
\* line, the third would make 68
C16_Witness ==
    /\ stage = "single"
    /\ MergeSucceeded
    /\ usesTimeTracking
    /\ Len(lines) = 3
    /\ \A k \in 1..3 : /\ lines[k].label = NoLabel
                        /\ ~lines[k].hasEOL /\ ~lines[k].hasBOL
                        /\ lines[k].stmts[1].len = 22
    /\ Len(newElements) = 2
    /\ Len(newElements[1].stmts) = 2

\* the input lines whose statements stand on the output lines
Covered == IF mpc \in {"inner", "error"} THEN i ELSE i - 1

\* C19: the statement lists of the input lines are never modified, and
\* at every point the output lines hold exactly the statements of the
\* input lines taken so far, each output line starting with all the
\* statements of the input line it was started from; so after a
\* speculative line was over the budget the accumulator holds what it
\* held before, and the rejected line starts the next output line whole.
C19_RollbackLeavesNoTrace ==
    /\ lines = orig
    /\ Flatten(newElements) = Flatten(SubSeq(lines, 1, Covered))
    /\ \A o \in 1..Len(newElements) :
          \E k \in 1..Len(lines) :
              /\ newElements[o].pos = lines[k].pos
              /\ IsPrefix(lines[k].stmts, newElements[o].stmts)

\* two plain lines of two statements each: 91 characters are over the
\* budget 70, and each line is returned as it was
C19_Witness ==
    /\ MergeSucceeded
    /\ ~usesTimeTracking
    /\ Len(lines) = 2
    /\ \A k \in 1..2 : /\ lines[k].label = NoLabel
                        /\ ~lines[k].hasEOL /\ ~lines[k].hasBOL
                        /\ Len(lines[k].stmts) = 2
    /\ Len(newElements) = 2
    /\ \A o \in 1..2 : newElements[o].stmts = lines[o].stmts

----------------------------------------------------------------------------
(* Properties of Convert *)

\* C3: Convert returns a nil error only with a program of at most 20
\* lines, and a program of more than 20 lines comes with the structural
\* error that carries a source span.
C3_LineCountValidated ==
    cpc = "returned" =>
        /\ retErr = NoError => (~retProg.isNil /\ retProg.lines <= 20)
        /\ (~retProg.isNil /\ retProg.lines > 20) =>
              (retErr = TooLargeError /\ retErr.span)

\* Convert returned the error of a program of 21 lines
C3_Witness ==
    /\ cpc = "returned"
    /\ ~retProg.isNil
    /\ retProg.lines = 21
    /\ retErr = TooLargeError

\* C6: once a pass has returned an error, Convert has returned exactly
\* that error and no program, the failed pass is the last one that ran,
\* and the passes that ran are a prefix of the pass order, each run once.
C6_FirstErrorAborts ==
    firstErr # NoError =>
        /\ cpc = "returned"
        /\ retErr = firstErr
        /\ retProg.isNil
        /\ ran = SubSeq(PassOrder, 1, Len(ran))
        /\ ran[Len(ran)] = firstErr.pass

\* the label table could not be built, after six passes went through
C6_Witness ==
    /\ cpc = "returned"
    /\ firstErr = PassError("findJumpLabels")
    /\ Len(ran) = 7

\* the loops that are open where the traversal stands
OpenLoops == OpenStack(prog, tp - 1)

\* C7: during lowering loopLevel is as deep as the while loops entered
\* and not left, and outside lowering (before it starts, after it ends,
\* whatever its outcome) loopLevel is empty.
C7_LoopStackMatchesNesting ==
    IF cpc = "convertNodes"
      THEN Len(loopLevel) = Len(OpenLoops)
      ELSE loopLevel = <<>>

\* the loop ids of the loops that enclose node k, innermost last
EnclosingIds(k) ==
    LET s == OpenStack(prog, k - 1) IN [j \in 1..Len(s) |-> prog[s[j]].id]

\* C8: a break or continue about to be visited finds the id of its
\* innermost enclosing loop on top of loopLevel, or an empty loopLevel
\* when no loop encloses it; so every break or continue that was lowered
\* jumps to its innermost enclosing loop, and none outside a loop is
\* lowered.
C8_BreakResolvesToInnermostLoop ==
    cpc = "convertNodes" =>
        /\ \A k \in 1..(tp - 1) :
              prog[k].kind = "goto" =>
                /\ EnclosingIds(k) # <<>>
                /\ prog[k].id = EnclosingIds(k)[Len(EnclosingIds(k))]
        /\ (tp <= Len(prog) /\ prog[tp].kind = "break") =>
              IF EnclosingIds(tp) = <<>>
                THEN loopLevel = <<>>
                ELSE /\ loopLevel # <<>>
                     /\ loopLevel[Len(loopLevel)] = EnclosingIds(tp)[Len(EnclosingIds(tp))]

\* the expansions entered and not left: their exit markers are ahead
PendingExits ==
    Cardinality({k \in tp..Len(prog) : prog[k].kind = "macroleft"})

\* C9: during lowering macroLevel is as deep as the macro expansions
\* entered and not yet left, and it is empty once lowering is over, also
\* when an insertion failed to expand.
C9_MacroStackMatchesExpansions ==
    IF cpc = "convertNodes"
      THEN Len(macroLevel) = PendingExits
      ELSE macroLevel = <<>>

\* C12: whenever Convert is called on a Converter, whatever calls were
\* made on it before, the loop counter, the loop stack, the macro stack
\* and the macro table are as NewConverter made them.
C12_StateScopedToOneCompilation ==
    cpc = "idle" =>
        /\ loopcounter = 0
        /\ loopLevel = <<>>
        /\ macroLevel = <<>>
        /\ macros = {}

\* the passes up to the merging pass
UpToMerge == {PassOrder[k] : k \in 1..PassIndex("mergeNololElements")}

\* C13: when the lowering leaves an element that is no StatementLine, no
\* pass after the merging pass runs, the merging pass fails if Convert
\* gets that far, and Convert returns an error and no program; a program
\* that Convert returns holds lines made from StatementLines only.
C13_NoUnconvertedElementEmitted ==
    /\ unconverted =>
          /\ cpc # "panic"
          /\ \A k \in 1..Len(ran) : ran[k] \in UpToMerge
          /\ (\E k \in 1..Len(ran) : ran[k] = "mergeNololElements") =>
                (cpc = "returned" /\ firstErr = PassError("mergeNololElements"))
          /\ cpc = "returned" => (retProg.isNil /\ retErr # NoError)
    /\ (cpc = "returned" /\ ~retProg.isNil) => ~unconverted

\* a trigger survived the lowering and the merging pass refused it
C13_Witness ==
    /\ cpc = "returned"
    /\ unconverted
    /\ retErr = PassError("mergeNololElements")
    /\ ran = SubSeq(PassOrder, 1, PassIndex("mergeNololElements"))

\* the steps of Convert in the order of lines 101-189
AllSteps ==
    PassOrder \o <<"insertLineCounter", "removeFinalGotoIfNeeded", "validate">>

StepIndex(step) == CHOOSE k \in 1..Len(AllSteps) : AllSteps[k] = step

\* C17: the steps of one call of Convert run in the fixed order, each at
\* most once, and a step runs only after every step before it has run
\* (the injection of the line counter may be left out); so the label
\* table is built after merging and the removal of redundant jumps, and
\* the jump targets are substituted after the label table is built.
C17_PassesRunInOrder ==
    /\ \A k \in 1..Len(ran) : \E j \in 1..Len(AllSteps) : AllSteps[j] = ran[k]
    /\ \A a, b \in 1..Len(ran) : a < b => StepIndex(ran[a]) < StepIndex(ran[b])
    /\ \A k \in 1..Len(ran) : \A j \in 1..(StepIndex(ran[k]) - 1) :
          AllSteps[j] # "insertLineCounter" =>
              \E a \in 1..(k - 1) : ran[a] = AllSteps[j]

\* a call with time tracking went through all thirteen steps
C17_Witness ==
    /\ cpc = "returned"
    /\ retErr = NoError
    /\ ran = AllSteps

\* the steps from the injection of the line counter on
InjectionDecided ==
    \/ cpc = "emit"
    \/ cpc = "returned" /\ \E k \in 1..Len(ran) : ran[k] = "validate"

\* C18: usesTimeTracking is set when Convert is called and not changed
\* until the next call; every run of the packer in the call, for a
\* nested block or for the top level, has the budget 66 if it is set and
\* 70 if not; and the line counter is inserted exactly if it is set.
C18_TimeTrackingDecidedOnce ==
    /\ [](budgets \subseteq {IF usesTimeTracking THEN 66 ELSE 70})
    /\ [](InjectionDecided =>
            (usesTimeTracking <=> \E k \in 1..Len(ran) : ran[k] = "insertLineCounter"))
    /\ [][cpc # "idle" => usesTimeTracking' = usesTimeTracking]_vars

\* a call with time tracking packed against 66 and got the line counter
C18_Witness ==
    /\ cpc = "returned"
    /\ usesTimeTracking
    /\ budgets = {66}
    /\ \E k \in 1..Len(ran) : ran[k] = "insertLineCounter"

\* the while loops the traversal has entered
EnteredLoops == {k \in 1..(tp - 1) : prog[k].kind = "while"}

\* C20: loopcounter grows by one with every pre-visit of a while loop and
\* changes at no other step, so the ids of the loops entered in one call
\* (nested, one after the other, in two expansions of one macro) are
\* positive and strictly increasing in the order of the pre-visits.
C20_LoopIdsFresh ==
    /\ [](cpc = "convertNodes" =>
            \A j, k \in EnteredLoops :
                /\ prog[j].id > 0
                /\ j < k => prog[j].id < prog[k].id)
    /\ [][IF Visiting({"while"})
            THEN loopcounter' = loopcounter + 1
            ELSE loopcounter' = loopcounter]_vars

\* the loops of two expansions of the macro got two ids
C20_Witness ==
    /\ cpc = "convertNodes"
    /\ macros # {}
    /\ Cardinality(EnteredLoops) = 2
    /\ \E j, k \in EnteredLoops : prog[j].id + 1 = prog[k].id
    /\ loopLevel = <<>>

----------------------------------------------------------------------------
(* Properties of the traversal *)

\* the list the program must hold: every original line in source order,
\* each one that was replaced standing for its replacement
RECURSIVE Spliced(_)
Spliced(k) ==
    IF k > Len(pOrig) THEN <<>>
    ELSE (IF replOf[k].done THEN replOf[k].repl ELSE <<pOrig[k]>>) \o Spliced(k + 1)

\* C10: replacing child i by N >= 0 nodes leaves old[0..i-1] ++
\* replacement ++ old[i+1..], and the traversal goes on so that the
\* original children are visited once each, in source order: the visited
\* lines are a prefix of the original list, the lines still to visit are
\* exactly the rest of it, and a traversal that ends without error has
\* visited them all.
C10_SpliceKeepsTraversalInOrder ==
    apc \in {"loop", "returned", "panic"} =>
        /\ visited = SubSeq(pOrig, 1, Len(visited))
        /\ pLines = Spliced(1)
        /\ apc = "loop" =>
              SubSeq(pLines, ai, Len(pLines)) = SubSeq(pOrig, Len(visited) + 1, Len(pOrig))
        /\ aret = "nil" => visited = pOrig

\* a traversal of three lines ended without error after one line was
\* erased and another was replaced by two lines
C10_Witness ==
    /\ apc = "returned"
    /\ aret = "nil"
    /\ Len(pOrig) = 3
    /\ \E k \in 1..2 : replOf[k].done /\ replOf[k].repl = <<>>
    /\ \E k \in 1..3 : replOf[k].done /\ Len(replOf[k].repl) = 2

----------------------------------------------------------------------------
(* Properties of the length estimate *)

\* C11: the length getLengthOfLine computes for a line, with XX for every
\* jump target and 00 for every reference to the line's own number, is at
\* least the length of the line as printed once the targets and the own
\* number are line numbers in 1..20; so a line whose estimate is within
\* the budget is printed within the budget.
C11_EstimateNeverUndercounts ==
    epc = "printed" =>
        /\ estimate >= printed
        /\ estimate <= maxLineLength => printed <= maxLineLength

\* a line that jumps to line 20 and reads its own number on line 20 is
\* printed exactly as long as estimated
C11_Witness ==
    /\ epc = "printed"
    /\ Len(eLine) = 2
    /\ eLine[1].kind = "goto" /\ eLine[1].num = MaxLineNumber
    /\ eLine[2].kind = "line" /\ eLine[2].num = MaxLineNumber
    /\ estimate = printed

\* C15: a replacement that holds a node that is no line makes
\* patchExtLines panic: Accept returns nothing, no such node is ever
\* part of the list, no such replacement is ever spliced in, and the
\* list is left as it was before the replacement was attempted.
C15_WrongKindPanicsListUntouched ==
    /\ [](\A k \in 1..Len(pLines) : IsExtLine(pLines[k]))
    /\ [](\A k \in 1..Len(replOf) : replOf[k].done => ~PatchPanics(replOf[k].repl))
    /\ [](apc = "panic" => (aret = "none" /\ pLines = Spliced(1)))
    /\ [][(apc # "panic" /\ apc' = "panic") => pLines' = pLines]_vars

\* the traversal of three lines panicked after it had spliced two lines
\* in the place of one
C15_Witness ==
    /\ apc = "panic"
    /\ Len(pOrig) = 3
    /\ Len(pLines) = 4
    /\ \E k \in 1..Len(replOf) : replOf[k].done /\ Len(replOf[k].repl) = 2

----------------------------------------------------------------------------
(* Properties of the jump-chain collapse *)

----------------------------------------------------------------------------
(* Properties of the traversal of a declaration *)

\* C21: a callback may erase the child it visits: a replacement of zero
\* nodes never makes the traversal crash, also not where the child is
\* the one value of a constant declaration.
C21_ErasingNeverCrashes ==
    (dAnswer.kind = "replacement" /\ dAnswer.repl = <<>>) => dpc # "panic"

----------------------------------------------------------------------------
(* Properties of the debugger shell *)

\* C22: the coordinator is started at most once per load. After every
\* load, the first one or a reset, running is false; the first continue or
\* step after a load calls Coordinator.Run and sets running; a later
\* continue before the next reset does not call Coordinator.Run again and
\* resumes the current VM, and no other, only if that VM is paused.
C22_CoordinatorStartedOncePerLoad ==
    /\ runCalls <= 1
    /\ running <=> runCalls = 1
    /\ last.cmd \in {"load", "reset"} => ~running /\ runCalls = 0
    /\ last.cmd \in {"continue", "step"} =>
          /\ running
          /\ last.ran <=> ~last.wasRunning
    /\ (last.cmd = "continue" /\ ~last.wasRunning) => last.call = "none"
    /\ (last.cmd = "continue" /\ last.wasRunning) =>
          /\ ~last.ran
          /\ last.call = "Resume" <=> last.state = StatePaused
          /\ last.call = "Resume" => last.target = last.current

\* a continue after the coordinator was started resumes the second script
C22_Witness ==
    /\ last.cmd = "continue"
    /\ last.wasRunning
    /\ last.call = "Resume"
    /\ last.current = 1
    /\ runCalls = 1

\* C23: step acts on the selected script. Step is called on the current
\* script's VM exactly when that VM has not terminated, and the command is
\* refused exactly when the current script's VM has terminated, whichever
\* script is selected.
C23_StepActsOnCurrentScript ==
    last.cmd = "step" =>
        /\ last.call = "Step" <=> last.state # StateTerminated
        /\ last.call = "Step" => last.target = last.current
        /\ last.refused <=> last.state = StateTerminated

====
